---- MODULE Spec2Model ----
(***************************************************************************)
(* Model of dso-to-ct (src/main.go, lines 1-265): a pipeline that pages    *)
(* chain identities out of a store (getChains), assembles each chain's     *)
(* certificates (getCerts), hands them over a buffered channel to a pool   *)
(* of workers (submitChains / submit) and keeps three atomic counters.     *)
(*                                                                         *)
(* Goroutines modelled: the getChains goroutine, the main goroutine (the   *)
(* assembly loop, close, wait and the deferred recorder), the submitChains *)
(* goroutine (wg.Wait, finished) and the workers.                          *)
(* A panic in a goroutine other than main ends the process at once, and    *)
(* main's deferred function is not run: proc = "crashed".                  *)
(***************************************************************************)
EXTENDS Integers, Sequences, FiniteSets, TLC

\* ---------------------------------------------------------------- bounds
\* Page size of the store query (maxChains is 1000 in the source; scaled).
maxChains == 2
\* Capacity of chainsCh (100 in the source; scaled).
ChainsCap == 1
\* Capacity of submissions (100000 in the source; scaled).
SubmissionsCap == 1
\* Rows of valid chains the store can hold.
MaxRows == 3
\* Largest value of the -workers flag explored.
MaxWorkers == 2
\* Largest value of the -initialChainID flag explored.
MaxInitOffset == 1
\* Certificates (fingerprints) in the certs table, reports per chain.
NumCerts == 1
MaxReports == 1
\* The same two bounds for the specification of getCerts alone.
NumCertsA == 3
MaxReportsA == 3

VARIABLES
  dryRun,             \* flag -dryRun
  workers,            \* flag -workers
  initOffset,         \* flag -initialChainID
  lastSubmittedChain, \* atomic counters (main.go:32-34)
  numSubmitted,
  numNewSubmitted,
  chainsCh,           \* buffered channel of pages, and whether it is closed
  chainsClosed,
  submissions,        \* buffered channel of chains, and whether it is closed
  subClosed,
  finished,           \* buffered channel (cap 1): number of tokens in it
  gcPc, offset, gcPage,          \* the getChains goroutine
  mainPc, batch, idx, pending,   \* the main goroutine
  scPc,                          \* the submitChains goroutine (wg.Wait)
  wPc, wSub,                     \* the workers: position, chain in hand
  proc,               \* "running", "crashed" (panic outside main), "exited"
  recorded,           \* values printed by main's deferred recorder
  certsIn, certsOut,  \* one call of getCerts on its own: input and result
  \* history (not program state)
  requests,           \* offsets of the page requests issued, in order
  pageLens,           \* lengths of the pages the store returned, in order
  emitted,            \* identities sent on chainsCh
  asm,                \* [id, zeroEE, err] of every getCerts call made; zeroEE: the
                      \* store answered every query and no report was an end-entity
  pushed,             \* chains sent on submissions, in order
  dequeued,           \* IDs received by workers, in order
  attempts            \* [id, fail, result] of every finished sink call

vars == <<dryRun, workers, initOffset, lastSubmittedChain, numSubmitted,
          numNewSubmitted, chainsCh, chainsClosed, submissions, subClosed,
          finished, gcPc, offset, gcPage, mainPc, batch, idx, pending, scPc,
          wPc, wSub, proc, recorded, requests, pageLens, emitted,
          asm, pushed, dequeued, attempts, certsIn, certsOut>>

\* the flags, and the variables of the getCerts specification
cfgVars == <<dryRun, workers, initOffset, certsIn, certsOut>>
ctrVars == <<lastSubmittedChain, numSubmitted, numNewSubmitted>>
gcVars == <<gcPc, offset, gcPage, requests, pageLens, emitted>>
mainVars == <<mainPc, batch, idx, pending, asm, pushed, recorded>>
wVars == <<wPc, wSub, dequeued, attempts>>

Workers == 1..MaxWorkers

Max(S) == CHOOSE x \in S : \A y \in S : y <= x

RECURSIVE SumSeq(_)
SumSeq(s) == IF s = <<>> THEN 0 ELSE Head(s) + SumSeq(Tail(s))

Range(s) == {s[i] : i \in 1..Len(s)}

\* ------------------------------------------------------------ the store
\* chains table: the row at 0-based position r of the valid chains in
\* chain_id order has chain_id r + 1.
ChainRow(r) == [ID |-> r + 1]

\* selectChains with LIMIT maxChains OFFSET off, the store returning n rows.
Page(off, n) == [i \in 1..n |-> ChainRow(off + i - 1)]

\* certs table: raw_cert of a fingerprint.
RawCert(fp) == 10 + fp

\* reports table: the (cert_fp, is_end_entity) rows of one chain, as
\* sequences of distinct fingerprints.
ReportSeqs(nc, ml) ==
  UNION {{s \in [1..n -> [CertFP : 1..nc, EndEntity : BOOLEAN]] :
            \A i, j \in 1..n : i # j => s[i].CertFP # s[j].CertFP} : n \in 0..ml}

\* ------------------------------------------------------------- getCerts
\* errAt = 0: the reports query fails; errAt = k in 1..Len(reports): the
\* raw_cert lookup of the k-th report fails; otherwise no store error.
\* leaf = <<>> stands for the nil leaf, <<raw>> for a leaf.
RECURSIVE CertLoop(_, _, _, _, _)
CertLoop(reports, errAt, i, leaf, others) ==
  IF i > Len(reports)
  THEN IF leaf = <<>>
       THEN [err |-> "chain without end-entity", certs |-> <<>>]
       ELSE [err |-> "nil", certs |-> leaf \o others]
  ELSE IF errAt = i
       THEN [err |-> "store", certs |-> <<>>]
       ELSE IF reports[i].EndEntity
            THEN CertLoop(reports, errAt, i + 1, <<RawCert(reports[i].CertFP)>>, others)
            ELSE CertLoop(reports, errAt, i + 1, leaf,
                          Append(others, RawCert(reports[i].CertFP)))

\* getCerts appending the leaf after the others (mutation of getCerts).
getCertsLeafLast(reports, errAt) ==
  IF errAt = 0
  THEN [err |-> "store", certs |-> <<>>]
  ELSE LET r == CertLoop(reports, errAt, 1, <<>>, <<>>)
       IN IF r.err = "nil"
          THEN [r EXCEPT !.certs = Tail(r.certs) \o <<Head(r.certs)>>]
          ELSE r

\* main.go:74-99
getCerts(reports, errAt) ==
  IF errAt = 0
  THEN [err |-> "store", certs |-> <<>>]
  ELSE CertLoop(reports, errAt, 1, <<>>, <<>>)

\* ------------------------------------------------------------- the sink
\* A response of httpClient.Post: terr (transport error), StatusCode, Body:
\* "nil" (no body), "unreadable" (ReadAll fails), "garbage" (not JSON), or
\* "json" with a Timestamp ts.
Cutoff == 1

Body(kind, ts) == [kind |-> kind, ts |-> ts]

LiveResponses ==
  {[terr |-> TRUE, status |-> 0, body |-> Body("nil", 0)]} \cup
  {[terr |-> FALSE, status |-> s, body |-> b] :
     s \in {200, 500},
     b \in {Body("unreadable", 0), Body("garbage", 0), Body("json", 0), Body("json", 2)}}

\* dryClient.Post
DryResponses == {[terr |-> FALSE, status |-> 200, body |-> Body("nil", 0)]}

Responses(dry) == IF dry THEN DryResponses ELSE LiveResponses

\* submit without its status test (mutation of submitOutcome).
submitOutcomeNoStatus(resp) ==
  IF resp.terr THEN "err"
  ELSE IF resp.body.kind = "nil" THEN "panic"
  ELSE IF resp.body.kind = "unreadable" THEN "err"
  ELSE IF resp.body.kind = "garbage" THEN "err"
  ELSE IF resp.body.ts > Cutoff THEN "new" ELSE "old"

\* submit, up to its counter updates: "err" (returns an error), "panic"
\* (resp.Body is nil), "new" / "old" (success, with / without the
\* numNewSubmitted increment).
submitOutcome(resp) ==
  IF resp.terr THEN "err"
  ELSE IF resp.body.kind = "nil" THEN "panic"
  ELSE IF resp.status # 200 THEN "err"
  ELSE IF resp.body.kind = "unreadable" THEN "err"
  ELSE IF resp.body.kind = "garbage" THEN "err"
  ELSE IF resp.body.ts > Cutoff THEN "new" ELSE "old"

\* ---------------------------------------------------------------- Init
NoChain == [ID |-> 0, certs |-> <<>>]

NoCall == [reports |-> <<>>, errAt |-> 0]
NoResult == [err |-> "none", certs |-> <<>>]

\* main.go:31-34, 211-212, 244 and the goroutines at their first statement.
Constructed ==
  /\ lastSubmittedChain = 0 /\ numSubmitted = 0 /\ numNewSubmitted = 0
  /\ chainsCh = <<>> /\ chainsClosed = FALSE
  /\ submissions = <<>> /\ subClosed = FALSE
  /\ finished = 0
  /\ gcPc = "select" /\ offset = initOffset /\ gcPage = <<>>
  /\ mainPc = "recv" /\ batch = <<>> /\ idx = 1 /\ pending = NoChain
  /\ scPc = "wait"
  /\ wPc = [w \in Workers |-> IF w <= workers THEN "recv" ELSE "off"]
  /\ wSub = [w \in Workers |-> NoChain]
  /\ proc = "running"
  /\ recorded = <<>>
  /\ requests = <<>> /\ pageLens = <<>> /\ emitted = 0
  /\ asm = {} /\ pushed = <<>> /\ dequeued = <<>> /\ attempts = {}

Init ==
  /\ dryRun \in BOOLEAN
  /\ workers \in 1..MaxWorkers
  /\ initOffset \in 0..MaxInitOffset
  /\ Constructed
  /\ certsIn = NoCall /\ certsOut = NoResult

\* A send that never waits for room (mutation of CanSend).
CanSendAlways(ch, cap) == TRUE

\* A send on a buffered channel proceeds when the buffer has room.
CanSend(ch, cap) == Len(ch) < cap

\* ------------------------------------------- getChains and its goroutine
\* Pagination that stops on an empty page only (mutation of ShortPage).
ShortPageEmpty(chains) == Len(chains) = 0

\* main.go:61
ShortPage(chains) == Len(chains) < maxChains

\* An offset that never advances (mutation of NextOffset).
NextOffsetStuck(off, chains) == off

\* main.go:64
NextOffset(off, chains) == off + Len(chains)

\* main.go:53-59: one db.Select. The store returns the next n rows (fewer
\* than maxChains only when the table ends there), sql.ErrNoRows when no row
\* is left, or another error, on which the goroutine panics (main.go:239).
GcSelect ==
  /\ proc = "running" /\ gcPc = "select"
  /\ requests' = Append(requests, offset)
  /\ \/ \E n \in 0..maxChains :
          /\ offset + n <= MaxRows
          /\ gcPage' = Page(offset, n)
          /\ pageLens' = Append(pageLens, n)
          /\ gcPc' = "send"
          /\ UNCHANGED proc
     \/ /\ gcPc' = "close"
        /\ UNCHANGED <<gcPage, pageLens, proc>>
     \/ /\ proc' = "crashed"
        /\ UNCHANGED <<gcPage, pageLens, gcPc>>
  /\ UNCHANGED <<cfgVars, ctrVars, chainsCh, chainsClosed, submissions,
                 subClosed, finished, offset, emitted, mainVars, scPc, wVars>>

\* main.go:60-64: chainCh <- chains, then the short-page test.
GcSend ==
  /\ proc = "running" /\ gcPc = "send"
  /\ CanSend(chainsCh, ChainsCap)
  /\ chainsCh' = Append(chainsCh, gcPage)
  /\ emitted' = emitted + Len(gcPage)
  /\ IF ShortPage(gcPage)
     THEN gcPc' = "close" /\ UNCHANGED offset
     ELSE gcPc' = "select" /\ offset' = NextOffset(offset, gcPage)
  /\ gcPage' = <<>>
  /\ UNCHANGED <<cfgVars, ctrVars, chainsClosed, submissions, subClosed,
                 finished, requests, pageLens, mainVars, scPc, wVars, proc>>

\* A close that is followed by a second close (mutation of GcClose).
GcCloseTwice ==
  /\ proc = "running" /\ gcPc = "close"
  /\ chainsClosed' = TRUE
  /\ gcPc' = IF chainsClosed THEN "done" ELSE "close"
  /\ UNCHANGED <<cfgVars, ctrVars, chainsCh, submissions, subClosed, finished,
                 offset, gcPage, requests, pageLens, emitted, mainVars, scPc,
                 wVars, proc>>

\* main.go:241
GcClose ==
  /\ proc = "running" /\ gcPc = "close"
  /\ chainsClosed' = TRUE
  /\ gcPc' = "done"
  /\ UNCHANGED <<cfgVars, ctrVars, chainsCh, submissions, subClosed, finished,
                 offset, gcPage, requests, pageLens, emitted, mainVars, scPc,
                 wVars, proc>>

\* ----------------------------------------------------- the main goroutine
\* Position after the body of the inner loop for batch[idx] has run.
AfterChain == IF idx < Len(batch) THEN "loop" ELSE "recv"

\* main.go:253: for chains := range chainsCh
MainRecv ==
  /\ proc = "running" /\ mainPc = "recv"
  /\ IF chainsCh # <<>>
     THEN /\ batch' = Head(chainsCh)
          /\ chainsCh' = Tail(chainsCh)
          /\ idx' = 1
          /\ mainPc' = IF Head(chainsCh) = <<>> THEN "recv" ELSE "loop"
     ELSE /\ chainsClosed
          /\ mainPc' = "close"
          /\ UNCHANGED <<batch, chainsCh, idx>>
  /\ UNCHANGED <<cfgVars, ctrVars, chainsClosed, submissions, subClosed,
                 finished, gcVars, pending, asm, pushed, recorded,
                 scPc, wVars, proc>>

\* The loop with the panic(err) of main.go:257 (mutation of OnCertsErr).
OnCertsErrAbort(err) == "abort"

\* A loop that walks the batch from its end (mutation of ChainAt).
ChainAtRev(chains, i) == chains[Len(chains) + 1 - i]

\* main.go:254: the i-th iteration of for _, partialChain := range chains
ChainAt(chains, i) == chains[i]

\* main.go:256-259: what the loop does with an error of getCerts.
OnCertsErr(err) == "continue"

\* main.go:255-259: getCerts for batch[idx]; the store's answer (the reports
\* of the chain, and where a query fails if one does) is the input.
MainGetCerts ==
  /\ proc = "running" /\ mainPc = "loop"
  /\ \E reports \in ReportSeqs(NumCerts, MaxReports) :
       \E errAt \in 0..(Len(reports) + 1) :
         LET r == getCerts(reports, errAt)
             id == ChainAt(batch, idx).ID
             zero == /\ errAt = Len(reports) + 1
                     /\ \A i \in 1..Len(reports) : ~reports[i].EndEntity
         IN /\ asm' = asm \cup {[id |-> id, zeroEE |-> zero, err |-> r.err]}
            /\ IF r.err = "nil"
               THEN /\ pending' = [ID |-> id, certs |-> r.certs]
                    /\ mainPc' = "push"
                    /\ UNCHANGED <<idx, proc>>
               ELSE IF OnCertsErr(r.err) = "continue"
                    THEN /\ mainPc' = AfterChain
                         /\ idx' = idx + 1
                         /\ UNCHANGED <<pending, proc>>
                    ELSE /\ mainPc' = "deferred"
                         /\ UNCHANGED <<pending, idx, proc>>
  /\ UNCHANGED <<cfgVars, ctrVars, chainsCh, chainsClosed, submissions,
                 subClosed, finished, gcVars, batch, pushed, recorded, scPc, wVars>>

\* A send that gives the chain up when the buffer is full (mutation of
\* MainPush).
MainPushDrop ==
  /\ proc = "running" /\ mainPc = "push"
  /\ IF CanSend(submissions, SubmissionsCap)
     THEN /\ submissions' = Append(submissions, pending)
          /\ pushed' = Append(pushed, pending.ID)
     ELSE UNCHANGED <<submissions, pushed>>
  /\ pending' = NoChain
  /\ mainPc' = AfterChain
  /\ idx' = idx + 1
  /\ UNCHANGED <<cfgVars, ctrVars, chainsCh, chainsClosed, subClosed, finished,
                 gcVars, batch, asm, recorded, scPc, wVars, proc>>

\* main.go:260: submissions <- partialChain
MainPush ==
  /\ proc = "running" /\ mainPc = "push"
  /\ CanSend(submissions, SubmissionsCap)
  /\ submissions' = Append(submissions, pending)
  /\ pushed' = Append(pushed, pending.ID)
  /\ pending' = NoChain
  /\ mainPc' = AfterChain
  /\ idx' = idx + 1
  /\ UNCHANGED <<cfgVars, ctrVars, chainsCh, chainsClosed, subClosed, finished,
                 gcVars, batch, asm, recorded, scPc, wVars, proc>>

\* main.go:263
MainClose ==
  /\ proc = "running" /\ mainPc = "close"
  /\ subClosed' = TRUE
  /\ mainPc' = "wait"
  /\ UNCHANGED <<cfgVars, ctrVars, chainsCh, chainsClosed, submissions,
                 finished, gcVars, batch, idx, pending, asm, pushed,
                 recorded, scPc, wVars, proc>>

\* main.go:264: <-finished, after which main returns
MainWait ==
  /\ proc = "running" /\ mainPc = "wait"
  /\ finished > 0
  /\ finished' = finished - 1
  /\ mainPc' = "deferred"
  /\ UNCHANGED <<cfgVars, ctrVars, chainsCh, chainsClosed, submissions,
                 subClosed, gcVars, batch, idx, pending, asm, pushed,
                 recorded, scPc, wVars, proc>>

\* main.go:220-231: the deferred recorder, run when main returns; then the
\* process ends.
MainDeferred ==
  /\ proc = "running" /\ mainPc = "deferred"
  /\ recorded' = Append(recorded, lastSubmittedChain)
  /\ mainPc' = "done"
  /\ proc' = "exited"
  /\ UNCHANGED <<cfgVars, ctrVars, chainsCh, chainsClosed, submissions,
                 subClosed, finished, gcVars, batch, idx, pending, asm, pushed,
                 scPc, wVars>>

\* ------------------------------------------ submitChains and the workers
\* main.go:159: for submission := range submissions; wg.Done at its end.
WorkerRecv(w) ==
  /\ proc = "running" /\ wPc[w] = "recv"
  /\ IF submissions # <<>>
     THEN /\ wSub' = [wSub EXCEPT ![w] = Head(submissions)]
          /\ submissions' = Tail(submissions)
          /\ dequeued' = Append(dequeued, Head(submissions).ID)
          /\ wPc' = [wPc EXCEPT ![w] = "post"]
     ELSE /\ subClosed
          /\ wPc' = [wPc EXCEPT ![w] = "done"]
          /\ UNCHANGED <<wSub, submissions, dequeued>>
  /\ UNCHANGED <<cfgVars, ctrVars, chainsCh, chainsClosed, subClosed, finished,
                 gcVars, mainVars, scPc, attempts, proc>>

\* The failures of a submission as the sink reports them: a transport
\* error, a status other than 200, a success body that cannot be read or
\* decoded.
SinkFailure(resp) ==
  \/ resp.terr
  \/ resp.status # 200
  \/ resp.body.kind \in {"unreadable", "garbage"}

\* A worker that posts the same chain again after an error (mutation of
\* OnSubmitErr).
OnSubmitErrRetry(err) == "retry"

\* main.go:161-163: what the worker loop does with an error of submit.
OnSubmitErr(err) == "continue"

\* main.go:117-139 and 160-163: the Post and what submit makes of its
\* response, up to the counter updates.
WorkerPost(w) ==
  /\ proc = "running" /\ wPc[w] = "post"
  /\ \E resp \in Responses(dryRun) :
       LET o == submitOutcome(resp) IN
         /\ attempts' = attempts \cup
              {[id |-> wSub[w].ID, fail |-> SinkFailure(resp),
                result |-> IF o \in {"new", "old"} THEN "ok" ELSE o]}
         /\ CASE o = "panic" -> proc' = "crashed" /\ UNCHANGED <<wPc, wSub>>
              [] o = "err" -> /\ IF OnSubmitErr(o) = "continue"
                                 THEN /\ wPc' = [wPc EXCEPT ![w] = "recv"]
                                      /\ wSub' = [wSub EXCEPT ![w] = NoChain]
                                 ELSE UNCHANGED <<wPc, wSub>>
                              /\ UNCHANGED proc
              [] o = "new" -> /\ wPc' = [wPc EXCEPT ![w] = "addNew"]
                              /\ UNCHANGED <<wSub, proc>>
              [] o = "old" -> /\ wPc' = [wPc EXCEPT ![w] = "store"]
                              /\ UNCHANGED <<wSub, proc>>
  /\ UNCHANGED <<cfgVars, ctrVars, chainsCh, chainsClosed, submissions,
                 subClosed, finished, gcVars, mainVars, scPc, dequeued>>

\* main.go:141
WorkerAddNew(w) ==
  /\ proc = "running" /\ wPc[w] = "addNew"
  /\ numNewSubmitted' = numNewSubmitted + 1
  /\ wPc' = [wPc EXCEPT ![w] = "store"]
  /\ UNCHANGED <<cfgVars, lastSubmittedChain, numSubmitted, chainsCh,
                 chainsClosed, submissions, subClosed, finished, gcVars,
                 mainVars, scPc, wSub, dequeued, attempts, proc>>

\* main.go:143 and 164: atomic.StoreInt64(&lastSubmittedChain, submission.ID)
StoreLast(cur, id) == id

\* main.go:143
WorkerStore(w) ==
  /\ proc = "running" /\ wPc[w] = "store"
  /\ lastSubmittedChain' = StoreLast(lastSubmittedChain, wSub[w].ID)
  /\ wPc' = [wPc EXCEPT ![w] = "add"]
  /\ UNCHANGED <<cfgVars, numSubmitted, numNewSubmitted, chainsCh,
                 chainsClosed, submissions, subClosed, finished, gcVars,
                 mainVars, scPc, wSub, dequeued, attempts, proc>>

\* An increment that is a plain read-modify-write: the workers that are at
\* it together write the same value (mutation of WorkerAdd).
WorkerAddRacy(w) ==
  /\ proc = "running" /\ wPc[w] = "add"
  /\ numSubmitted' = numSubmitted + 1
  /\ wPc' = [v \in Workers |-> IF wPc[v] = "add" THEN "store2" ELSE wPc[v]]
  /\ UNCHANGED <<cfgVars, lastSubmittedChain, numNewSubmitted, chainsCh,
                 chainsClosed, submissions, subClosed, finished, gcVars,
                 mainVars, scPc, wSub, dequeued, attempts, proc>>

\* main.go:144
WorkerAdd(w) ==
  /\ proc = "running" /\ wPc[w] = "add"
  /\ numSubmitted' = numSubmitted + 1
  /\ wPc' = [wPc EXCEPT ![w] = "store2"]
  /\ UNCHANGED <<cfgVars, lastSubmittedChain, numNewSubmitted, chainsCh,
                 chainsClosed, submissions, subClosed, finished, gcVars,
                 mainVars, scPc, wSub, dequeued, attempts, proc>>

\* main.go:164
WorkerStore2(w) ==
  /\ proc = "running" /\ wPc[w] = "store2"
  /\ lastSubmittedChain' = StoreLast(lastSubmittedChain, wSub[w].ID)
  /\ wPc' = [wPc EXCEPT ![w] = "recv"]
  /\ wSub' = [wSub EXCEPT ![w] = NoChain]
  /\ UNCHANGED <<cfgVars, numSubmitted, numNewSubmitted, chainsCh,
                 chainsClosed, submissions, subClosed, finished, gcVars,
                 mainVars, scPc, dequeued, attempts, proc>>

\* submitChains signalling without wg.Wait (mutation of ScFinish).
ScFinishNoWait ==
  /\ proc = "running" /\ scPc = "wait"
  /\ finished' = finished + 1
  /\ scPc' = "done"
  /\ UNCHANGED <<cfgVars, ctrVars, chainsCh, chainsClosed, submissions,
                 subClosed, gcVars, mainVars, wVars, proc>>

\* main.go:169 and 250: wg.Wait returns once every worker has called
\* wg.Done; then finished <- struct{}{}.
ScFinish ==
  /\ proc = "running" /\ scPc = "wait"
  /\ \A w \in Workers : wPc[w] \in {"done", "off"}
  /\ finished' = finished + 1
  /\ scPc' = "done"
  /\ UNCHANGED <<cfgVars, ctrVars, chainsCh, chainsClosed, submissions,
                 subClosed, gcVars, mainVars, wVars, proc>>

Next ==
  \/ GcSelect \/ GcSend \/ GcClose
  \/ MainRecv \/ MainGetCerts \/ MainPush
  \/ MainClose \/ MainWait \/ MainDeferred
  \/ ScFinish
  \/ \E w \in Workers :
       \/ WorkerRecv(w) \/ WorkerPost(w) \/ WorkerAddNew(w)
       \/ WorkerStore(w) \/ WorkerAdd(w) \/ WorkerStore2(w)

Spec == Init /\ [][Next]_vars

\* The steps of each goroutine; the Go scheduler runs every goroutine that
\* can take a step, so each is weakly fair.
GcNext == GcSelect \/ GcSend \/ GcClose

MainNext ==
  MainRecv \/ MainGetCerts \/ MainPush \/ MainClose \/ MainWait \/ MainDeferred

WorkerNext(w) ==
  \/ WorkerRecv(w) \/ WorkerPost(w) \/ WorkerAddNew(w)
  \/ WorkerStore(w) \/ WorkerAdd(w) \/ WorkerStore2(w)

SpecFair ==
  /\ Init /\ [][Next]_vars
  /\ WF_vars(GcNext) /\ WF_vars(MainNext) /\ WF_vars(ScFinish)
  /\ \A w \in Workers : WF_vars(WorkerNext(w))

\* ------------------------------------------- getCerts on its own inputs
InitCerts ==
  /\ dryRun = FALSE /\ workers = 1 /\ initOffset = 0
  /\ Constructed
  /\ certsIn \in {[reports |-> r, errAt |-> e] :
                   r \in ReportSeqs(NumCertsA, MaxReportsA), e \in 0..(MaxReportsA + 1)}
  /\ certsIn.errAt <= Len(certsIn.reports) + 1
  /\ certsOut = NoResult

CallGetCerts ==
  /\ certsOut = NoResult
  /\ certsOut' = getCerts(certsIn.reports, certsIn.errAt)
  /\ UNCHANGED <<dryRun, workers, initOffset, certsIn, ctrVars, chainsCh,
                 chainsClosed, submissions, subClosed, finished, gcVars,
                 mainVars, scPc, wVars, proc>>

NextCerts == CallGetCerts

SpecCerts == InitCerts /\ [][NextCerts]_vars

\* ================================================================ claims
Succeeded == {a.id : a \in {b \in attempts : b.result = "ok"}}

Pos(seq, x) == CHOOSE i \in 1..Len(seq) : seq[i] = x

\* C1: once the pipeline has completed (main returned after <-finished),
\* lastSubmittedChain is the largest chain ID among the chains whose
\* submission succeeded, whatever the order in which the workers finished.
C1_LastIsMaxAtCompletion ==
  proc = "exited" => lastSubmittedChain = Max(Succeeded \cup {0})

\* C2: whenever the process has ended, normally or by a fatal error, the
\* final "last submitted chain ID" record was written before it ended.
C2_RecordedOnEveryExit ==
  proc # "running" => Len(recorded) = 1

\* C3: once getCerts has returned a store error, the assembly loop pushes no
\* further chain onto submissions.
C3_StoreErrorAborts ==
  [][(\E a \in asm : a.err = "store") => pushed' = pushed]_vars

\* C4: under dry-run every submission made is reported successful, and with
\* no store error submittedCount at completion is the number of chains that
\* were assembled.
C4_DryRunAllSucceed ==
  dryRun =>
    /\ \A a \in attempts : a.result = "ok"
    /\ (proc = "exited" /\ \A a \in asm : a.err # "store")
         => numSubmitted = Cardinality({a \in asm : a.err = "nil"})

\* C5: a chain whose reports hold no end-entity record gets the error
\* "chain without end-entity" from getCerts, is never pushed onto submissions
\* nor handed to a worker, and the step that skips it moves the assembly loop
\* to the next identity with the process still running.
C5_State ==
  \A a \in asm : a.zeroEE =>
    /\ a.err = "chain without end-entity"
    /\ a.id \notin Range(pushed)
    /\ \A i \in 1..Len(submissions) : submissions[i].ID # a.id
    /\ \A w \in Workers : wSub[w].ID # a.id
    /\ \A t \in attempts : t.id # a.id

C5_Step ==
  (\E a \in asm' \ asm : a.zeroEE) =>
    /\ proc' = "running"
    /\ idx' = idx + 1
    /\ mainPc' = (IF idx < Len(batch) THEN "loop" ELSE "recv")
    /\ batch' = batch
    /\ submissions' = submissions /\ pushed' = pushed

C5_NoEndEntitySkipped == []C5_State /\ [][C5_Step]_vars

\* a chain without end-entity was skipped and a later chain was pushed
C5_Witness ==
  \E a \in asm : a.zeroEE /\ \E i \in 1..Len(pushed) : pushed[i] > a.id

\* C6: the step in which a worker's submission fails (transport error,
\* non-200 or undecodable body) changes none of the three counters, puts
\* nothing back on submissions and leaves the worker at its receive with no
\* chain in hand; no failed attempt is ever counted.
C6_State ==
  numSubmitted <= Cardinality({a \in attempts : ~a.fail})

C6_Step ==
  \A w \in Workers :
    (wPc[w] = "post" /\ \E a \in attempts' \ attempts : a.fail) =>
      \/ wPc'[w] = "post"
      \/ /\ lastSubmittedChain' = lastSubmittedChain
         /\ numSubmitted' = numSubmitted
         /\ numNewSubmitted' = numNewSubmitted
         /\ submissions' = submissions
         /\ wPc'[w] = "recv"
         /\ wSub'[w] = NoChain

C6_FailureLeavesCounters == []C6_State /\ [][C6_Step]_vars

\* a single worker failed on a chain and has since received the next one
C6_Witness ==
  /\ workers = 1
  /\ \E a \in attempts : a.fail /\ Pos(dequeued, a.id) < Len(dequeued)

\* C7: once the store has returned a page shorter than maxChains, that page
\* is the last one requested: no further request is issued, the goroutine
\* has only its send and the close left, and when it is done chainsCh is
\* closed.
C7_StopsAtShortPage ==
  /\ \A i \in 1..Len(pageLens) :
       pageLens[i] < maxChains =>
         /\ Len(requests) = i
         /\ gcPc \in {"send", "close", "done"}
  /\ gcPc = "done" => chainsClosed

\* a short page after a full one, the channel closed
C7_Witness ==
  /\ Len(pageLens) = 2 /\ pageLens[2] < maxChains
  /\ gcPc = "done" /\ chainsClosed

\* C8: the k-th page request uses offset initOffset + the lengths of the
\* pages returned before it, and the identities sent on chainsCh (with the
\* page still to be sent) number the sum of the returned page lengths.
C8_OffsetsAndTotal ==
  /\ \A k \in 1..Len(requests) :
       /\ k - 1 <= Len(pageLens)
       /\ requests[k] = initOffset + SumSeq(SubSeq(pageLens, 1, k - 1))
  /\ emitted + Len(gcPage) = SumSeq(pageLens)

\* the example scaled to maxChains: a full page then a shorter non-empty
\* one, two requests at offsets 0 and maxChains, all identities emitted
C8_Witness ==
  /\ initOffset = 0
  /\ pageLens = <<maxChains, maxChains - 1>>
  /\ requests = <<0, maxChains>>
  /\ emitted = 2 * maxChains - 1
  /\ gcPc = "done"

\* C9: submissions never holds more than SubmissionsCap chains; while main
\* is at its push, a step either leaves the chain pending at the push or
\* appends exactly that chain to a queue that had room; and the push is
\* enabled as soon as there is room.
C9_State ==
  /\ Len(submissions) <= SubmissionsCap
  /\ (proc = "running" /\ mainPc = "push" /\ Len(submissions) < SubmissionsCap)
       => ENABLED MainPush

C9_Step ==
  mainPc = "push" =>
    \/ /\ mainPc' = "push" /\ pending' = pending
       /\ pushed' = pushed
       /\ \/ submissions' = submissions
          \/ submissions # <<>> /\ submissions' = Tail(submissions)
    \/ /\ Len(submissions) < SubmissionsCap
       /\ submissions' = Append(submissions, pending)
       /\ pushed' = Append(pushed, pending.ID)

C9_PushBlocksWhenFull == []C9_State /\ [][C9_Step]_vars

\* the queue is full, main is at its push and every worker is busy
C9_Witness ==
  /\ proc = "running" /\ mainPc = "push"
  /\ Len(submissions) = SubmissionsCap
  /\ \A w \in Workers : wPc[w] \notin {"recv"}

\* C10: for reports with exactly one end-entity record and no store error,
\* certs is the leaf's raw bytes followed by the raw bytes of the other
\* reports in the order retrieved, as many as there are reports.
EndEntities(reports) == {i \in 1..Len(reports) : reports[i].EndEntity}

RECURSIVE OthersRaw(_)
OthersRaw(reports) ==
  IF reports = <<>> THEN <<>>
  ELSE IF Head(reports).EndEntity THEN OthersRaw(Tail(reports))
  ELSE <<RawCert(Head(reports).CertFP)>> \o OthersRaw(Tail(reports))

C10_LeafFirst ==
  (/\ certsOut # NoResult
   /\ certsIn.errAt = Len(certsIn.reports) + 1
   /\ Cardinality(EndEntities(certsIn.reports)) = 1)
  => LET leafIdx == CHOOSE i \in EndEntities(certsIn.reports) : TRUE
     IN /\ certsOut.err = "nil"
        /\ Len(certsOut.certs) = Len(certsIn.reports)
        /\ Head(certsOut.certs) = RawCert(certsIn.reports[leafIdx].CertFP)
        /\ Tail(certsOut.certs) = OthersRaw(certsIn.reports)

\* the leaf retrieved last, after two other records
C10_Witness ==
  /\ certsOut # NoResult /\ certsOut.err = "nil"
  /\ Len(certsIn.reports) = 3
  /\ EndEntities(certsIn.reports) = {3}
  /\ certsOut.certs = <<RawCert(certsIn.reports[3].CertFP),
                        RawCert(certsIn.reports[1].CertFP),
                        RawCert(certsIn.reports[2].CertFP)>>

\* C11: every chain pushed onto submissions is received by at most one
\* worker and posted at most once, nothing received is ever on the queue
\* again, and when the pipeline has completed every pushed chain has had
\* exactly one attempt.
NoDup(seq) == \A i, j \in 1..Len(seq) : i # j => seq[i] # seq[j]

C11_ExactlyOneAttempt ==
  /\ NoDup(pushed) /\ NoDup(dequeued)
  /\ Range(dequeued) \subseteq Range(pushed)
  /\ \A i \in 1..Len(submissions) : submissions[i].ID \notin Range(dequeued)
  /\ \A v, w \in Workers : (v # w /\ wSub[v] # NoChain) => wSub[v].ID # wSub[w].ID
  /\ \A a, b \in attempts : a.id = b.id => a = b
  /\ {a.id : a \in attempts} \subseteq Range(dequeued)
  /\ proc = "running" =>
       Cardinality(attempts) + Cardinality({w \in Workers : wPc[w] = "post"})
         = Len(dequeued)
  /\ proc = "exited" => {a.id : a \in attempts} = Range(pushed)

\* two workers have completed a run with a failed and a successful attempt
C11_Witness ==
  /\ proc = "exited" /\ workers = 2 /\ Len(pushed) >= 2
  /\ \E a, b \in attempts : a.fail /\ b.result = "ok"

\* C12: submissions is closed only after chainsCh was closed and every
\* batch received from it fully processed; submitChains signals on finished
\* only after every worker has seen submissions closed and empty and
\* returned; and the final record is written only after that signal, with
\* no worker holding a chain.
WorkersReturned == \A w \in Workers : wPc[w] \in {"done", "off"}

C12_ShutdownOrder ==
  /\ subClosed =>
       /\ chainsClosed /\ chainsCh = <<>>
       /\ mainPc \in {"wait", "deferred", "done"}
       /\ idx > Len(batch) /\ pending = NoChain
  /\ \A w \in Workers : wPc[w] = "done" => subClosed /\ submissions = <<>>
  /\ scPc = "done" => WorkersReturned /\ subClosed /\ submissions = <<>>
  /\ recorded # <<>> =>
       /\ scPc = "done" /\ WorkersReturned
       /\ \A w \in Workers : wSub[w] = NoChain

\* the final record written after a run in which chains were submitted
C12_Witness ==
  /\ recorded # <<>> /\ Len(pushed) >= 2 /\ Cardinality(attempts) >= 2

\* C13: lastSubmittedChain never decreases in any step.
C13_LastMonotonic ==
  [][lastSubmittedChain' >= lastSubmittedChain]_vars

\* C14: in every reachable state numNewSubmitted <= numSubmitted.
C14_NewAtMostSubmitted ==
  numNewSubmitted <= numSubmitted

\* C15: when the pipeline has completed, numSubmitted is the number of
\* attempts the sink answered with success (no transport error, status 200,
\* a body that decodes), and until then it never exceeds that number.
SinkSuccesses == {a \in attempts : ~a.fail /\ a.result # "panic"}

C15_NoLostUpdate ==
  /\ numSubmitted <= Cardinality(SinkSuccesses)
  /\ proc = "exited" => numSubmitted = Cardinality(SinkSuccesses)

\* two workers completed a run with two successes and a failure
C15_Witness ==
  /\ proc = "exited" /\ workers = 2
  /\ numSubmitted = 2
  /\ \E a \in attempts : a.fail

\* C17: no empty batch is ever on chainsCh.
C17_NoEmptyBatch ==
  \A i \in 1..Len(chainsCh) : chainsCh[i] # <<>>

\* C16: unless a store query fails, the pipeline eventually reaches its
\* final state: both channels closed and empty, every pushed chain
\* attempted, every worker returned and main finished.
StoreErrorSeen ==
  \/ \E a \in asm : a.err = "store"
  \/ proc = "crashed" /\ \A a \in attempts : a.result # "panic"

FinalState ==
  /\ proc = "exited" /\ mainPc = "done"
  /\ chainsClosed /\ chainsCh = <<>>
  /\ subClosed /\ submissions = <<>>
  /\ WorkersReturned
  /\ {a.id : a \in attempts} = Range(pushed)

C16_Terminates == <>(FinalState \/ StoreErrorSeen)

\* C18: chains are pushed in ascending chain ID, the workers receive them in
\* the order pushed, and when a chain has been received every assembled
\* chain with a smaller ID has been received too.
IDs(seq) == [i \in 1..Len(seq) |-> seq[i].ID]

C19_State ==
  /\ gcPc \in {"select", "send", "close"} => ~chainsClosed
  /\ chainsClosed => gcPc = "done"
  /\ mainPc \in {"recv", "loop", "push", "close"} => ~subClosed
  /\ subClosed => mainPc \in {"wait", "deferred", "done"}

C19_Step ==
  /\ chainsClosed =>
       /\ chainsClosed'
       /\ \/ chainsCh' = chainsCh
          \/ chainsCh # <<>> /\ chainsCh' = Tail(chainsCh)
  /\ subClosed =>
       /\ subClosed'
       /\ \/ submissions' = submissions
          \/ submissions # <<>> /\ submissions' = Tail(submissions)
  /\ chainsClosed' # chainsClosed => gcPc = "close" /\ gcPc' = "done"
  /\ subClosed' # subClosed => mainPc = "close" /\ mainPc' = "wait"

C19_ClosureSafety == []C19_State /\ [][C19_Step]_vars

\* both channels closed after pages were sent and chains pushed, and a
\* worker still draining the closed queue
C19_Witness ==
  /\ chainsClosed /\ subClosed
  /\ emitted >= 2 /\ Len(pushed) >= 2
  /\ submissions # <<>>

\* C20 as stated: in every reachable state every assembled chain with an ID
\* below lastSubmittedChain has had its submission attempt finish.
Attempted == {a.id : a \in attempts}

C20_Resumable ==
  \A a \in asm :
    (a.err = "nil" /\ a.id < lastSubmittedChain) => a.id \in Attempted

\* C20 amended: with a single worker, in every reachable state every
\* assembled chain with an ID below lastSubmittedChain has had its
\* submission attempt finish.
C20_ResumableOneWorker ==
  workers = 1 => C20_Resumable

\* one worker has stored the ID of a later chain after an earlier one failed
C20_Witness ==
  /\ workers = 1
  /\ \E a \in asm : a.err = "nil" /\ a.id < lastSubmittedChain
  /\ \E t \in attempts : t.fail /\ t.id < lastSubmittedChain

====
